---- MODULE Spec2Model ----
(***************************************************************************)
(* Model of the Redis connection pool of mcp-redis                         *)
(* (src/src/common/connection.py) and of the tools that mutate it          *)
(* (src/src/tools/connection_management.py).                               *)
(*                                                                         *)
(* Python values are written as the strings of their literals ("7000",     *)
(* "True", "None"), a dict is a function whose DOMAIN is its key set, and  *)
(* the insertion order of the pool's _connections dict is kept in `order`. *)
(* A client object is an index into `clients`, the sequence of the client  *)
(* objects that were stored in the pool at some time; a client whose ping  *)
(* raised is referenced by nothing once the exception propagates and is    *)
(* not kept.                                                               *)
(***************************************************************************)
EXTENDS Integers, Sequences, FiniteSets, TLC

\* ---------------------------------------------------------------- bounds
MaxClients == 2
\* the client objects registered before two calls overlap
MaxSetupClients == 1
\* the nodes r.get_nodes() lists, the keys one node holds, the count hint
MaxNodes == 2
MaxKeys == 3
MaxCount == 2
\* the config dicts a caller passes before it changes them
MaxCallerDicts == 1

\* ------------------------------------------------------------- constants
None == "None"
DECODED == "decoded"
RAW == "raw"
DecodeResponsesType == {DECODED, RAW}

NoHandle == 0

DefaultHostId == "127.0.0.1:6379"
HostIds == {"A", DefaultHostId}

\* the exceptions a client constructor or a ping may raise
ExcKinds == {"ConnectionError"}
\* how the construction of a client ends: both the constructor and the ping
\* succeed, or the constructor raises exc, or the ping raises exc
Outcomes ==
    {[stage |-> "ok", exc |-> None]} \cup
    [stage : {"ctor", "ping"}, exc : ExcKinds]

\* the exception classes the except clauses of add_connection name, and
\* "ValueError" for an exception of no redis class
DriverExcKinds ==
    {"ConnectionError", "AuthenticationError", "TimeoutError", "ResponseError",
     "RedisError", "ClusterError", "ValueError"}
\* the same with every exception class of DriverExcKinds
DriverOutcomes ==
    {[stage |-> "ok", exc |-> None]} \cup
    [stage : {"ctor", "ping"}, exc : DriverExcKinds]

\* RedisConfig() of src/common/config.py: the process-wide defaults
DefaultConfig ==
    [host |-> "127.0.0.1", port |-> "6379", db |-> "0",
     password |-> None, cluster_mode |-> "False"]

CfgCluster ==
    [host |-> "10.0.0.5", port |-> "7000", db |-> "3",
     password |-> None, cluster_mode |-> "True"]

\* the configurations callers register
Configs == {DefaultConfig, CfgCluster}

VARIABLES
    connections,    \* _connections: host_id -> (decode type -> client)
    order,          \* the key order of _connections
    configs,        \* _configs: host_id -> config
    default_host,   \* _default_host
    clients,        \* the client objects that were ever stored in the pool
    lastOp,         \* the last call, its arguments and its outcome
    first_added,    \* history: the first host id whose add_connection succeeded
    first_removed,  \* history: remove_connection was called on first_added
    tasks,          \* the calls two threads have in progress on the pool
    start,          \* the pool as it was when the first of these calls began
    singleton       \* the class attributes of RedisConnectionPool and the
                    \* threads inside RedisConnectionPool()

vars == <<connections, order, configs, default_host, clients, lastOp,
          first_added, first_removed, tasks, start, singleton>>

\* what takes part only when calls overlap
overlap == <<tasks, start, singleton>>

\* --------------------------------------------------------------- helpers
\* Python truthiness of a value
Truthy(v) == v \notin {None, "False", "", "0"}

\* dict.get(key, dflt)
DictGet(d, key, dflt) == IF key \in DOMAIN d THEN d[key] ELSE dflt

\* d[key] = value on a dict (insert or overwrite)
DictSet(d, key, value) ==
    [k \in (DOMAIN d) \cup {key} |-> IF k = key THEN value ELSE d[k]]

\* del d[key] / d.pop(key, None)
DictDel(d, key) == [k \in (DOMAIN d) \ {key} |-> d[k]]

EmptyDict == [k \in {} |-> None]

\* a sequence without the element x
RECURSIVE SeqRemove(_, _)
SeqRemove(s, x) ==
    IF s = <<>> THEN <<>>
    ELSE IF Head(s) = x THEN SeqRemove(Tail(s), x)
         ELSE <<Head(s)>> \o SeqRemove(Tail(s), x)

\* DecodeResponsesType.DECODED if decode_responses else DecodeResponsesType.RAW
DecodeType(decode_responses) == IF decode_responses THEN DECODED ELSE RAW

\* ------------------------------------------- _create_connection_params
ClusterIncompatibleKeys_KeepsDb == {"host", "port", "cluster_mode"}

ClusterIncompatibleKeys == {"host", "port", "db", "cluster_mode"}

\* the keys the else branch copies (lines 60-62)
StandaloneKeys_DropsDb(config) ==
    {k \in DOMAIN config : config[k] # None /\ k \notin {"cluster_mode", "db"}}

StandaloneKeys(config) ==
    {k \in DOMAIN config : config[k] # None /\ k # "cluster_mode"}

CreateConnectionParams(config, decode_responses) ==
    LET base == [decode_responses |-> IF decode_responses THEN "True" ELSE "False",
                 lib_name |-> "redis-py(mcp-server)"]
        cluster_mode == DictGet(config, "cluster_mode", "False")
    IN  IF Truthy(cluster_mode)
        THEN LET host == DictGet(config, "host", "127.0.0.1")
                 port == DictGet(config, "port", "6379")
                 copied == {k \in DOMAIN config :
                               config[k] # None /\ k \notin ClusterIncompatibleKeys}
                 keys == {"decode_responses", "lib_name", "startup_nodes",
                          "max_connections_per_node"} \cup copied
             IN  [k \in keys |->
                    IF k \in copied THEN config[k]
                    ELSE IF k = "startup_nodes" THEN <<[host |-> host, port |-> port]>>
                    ELSE IF k = "max_connections_per_node" THEN "10"
                    ELSE base[k]]
        ELSE LET copied == StandaloneKeys(config)
                 keys == {"decode_responses", "lib_name", "max_connections"} \cup copied
             IN  [k \in keys |->
                    IF k = "max_connections" THEN "10"
                    ELSE IF k \in copied THEN config[k]
                    ELSE base[k]]

\* a key a config dict does not have
Absent == "<absent>"

\* the config dicts the connect tool and the command line build: each key is
\* absent, None or set
ParamConfigs ==
    LET full == [host : {Absent, "10.0.0.5"}, port : {Absent, "7000"},
                 db : {Absent, "3", "0"}, username : {None, "u"},
                 password : {Absent, None, "pw"}, ssl : {Absent, "True"},
                 cluster_mode : {Absent, None, "False", "True"}]
    IN  {[k \in {f \in DOMAIN r : r[f] # Absent} |-> r[k]] : r \in full}

\* _get_redis_class
GetRedisClass(cluster_mode) == IF Truthy(cluster_mode) THEN "RedisCluster" ELSE "Redis"

\* ------------------------------------------------------ the pool's state
\* RedisConnectionPool's fields together with the client objects built so far
PoolState ==
    [connections |-> connections, order |-> order, configs |-> configs,
     default_host |-> default_host, clients |-> clients]

\* the result of a call: a returned value or a raised exception
Result(kind, raised, host, mode, handle, exc, available) ==
    [kind |-> kind, raised |-> raised, host |-> host, mode |-> mode,
     handle |-> handle, exc |-> exc, available |-> available]

\* redis_class(**connection_params); connection.ping()
\* stage "ctor": the constructor raises, no client object exists;
\* stage "ping": the client exists, its ping raises; stage "ok": both succeed
Construct_NoPing(cs, cls, params, stage) ==
    IF stage = "ctor" THEN cs
    ELSE Append(cs, [cls |-> cls, params |-> params,
                     pinged |-> FALSE, closed |-> FALSE])

Construct(cs, cls, params, stage) ==
    IF stage = "ctor" THEN cs
    ELSE Append(cs, [cls |-> cls, params |-> params,
                     pinged |-> (stage = "ok"), closed |-> FALSE])

\* the default host after a successful add_connection (lines 93-94)
DefaultAfterAdd_Always(d, host_id) == host_id

DefaultAfterAdd(d, host_id) == IF d = None THEN host_id ELSE d

\* the connection dict entry made before the client is built (lines 75-76)
EntryBeforeBuild(conns, host_id) ==
    IF host_id \notin DOMAIN conns THEN DictSet(conns, host_id, EmptyDict) ELSE conns

OrderBeforeBuild(ord, conns, host_id) ==
    IF host_id \notin DOMAIN conns THEN Append(ord, host_id) ELSE ord

\* the base class in redis.exceptions of each exception class
ExcBase ==
    [e \in DriverExcKinds \cup {"Exception"} |->
        CASE e = "ConnectionError" -> "RedisError"
          [] e = "AuthenticationError" -> "ConnectionError"
          [] e = "TimeoutError" -> "RedisError"
          [] e = "ResponseError" -> "RedisError"
          [] e = "ClusterError" -> "RedisError"
          [] e = "RedisError" -> "Exception"
          [] e = "ValueError" -> "Exception"
          [] OTHER -> None]

\* isinstance(e, cls) for an exception e of class exc
RECURSIVE IsInstance(_, _)
IsInstance(exc, cls) ==
    \/ exc = cls
    \/ exc # "Exception" /\ IsInstance(ExcBase[exc], cls)

\* the except clauses of add_connection in their order (lines 98-111)
ExceptClauses ==
    << [cls |-> "ConnectionError", msg |-> "Failed to connect to Redis server at "],
       [cls |-> "AuthenticationError", msg |-> "Authentication failed for Redis server at "],
       [cls |-> "TimeoutError", msg |-> "Connection timed out for Redis server at "],
       [cls |-> "ResponseError", msg |-> "Response error for Redis server at "],
       [cls |-> "RedisError", msg |-> "Redis error for server at "],
       [cls |-> "ClusterError", msg |-> "Redis Cluster error for server at "],
       [cls |-> "Exception", msg |-> "Unexpected error connecting to Redis server at "] >>

\* the clause that handles exc: the first one, in textual order, whose class
\* exc is an instance of
RECURSIVE HandlingClause(_, _)
HandlingClause(clauses, exc) ==
    IF IsInstance(exc, Head(clauses).cls) THEN Head(clauses)
    ELSE HandlingClause(Tail(clauses), exc)

\* the message of the Exception add_connection raises for exc; str(e), the
\* detail, is written as the name of the class of e
AddErrorMessage(host_id, exc) ==
    HandlingClause(ExceptClauses, exc).msg \o host_id \o ": " \o exc

\* RedisConnectionPool.add_connection
add_connection(S, host_id, config, decode_responses, stage, exc) ==
    LET conns1 == EntryBeforeBuild(S.connections, host_id)
        order1 == OrderBeforeBuild(S.order, S.connections, host_id)
        decode_type == DecodeType(decode_responses)
        params == CreateConnectionParams(config, decode_responses)
        cls == GetRedisClass(DictGet(config, "cluster_mode", "False"))
        clients1 == Construct(S.clients, cls, params, stage)
    IN  IF stage = "ok"
        THEN [state |-> [connections |->
                            DictSet(conns1, host_id,
                                    DictSet(conns1[host_id], decode_type, Len(clients1))),
                         order |-> order1,
                         configs |-> DictSet(S.configs, host_id, config),
                         default_host |-> DefaultAfterAdd(S.default_host, host_id),
                         clients |-> clients1],
              result |-> Result("connected", FALSE, host_id, decode_type,
                                NoHandle, None, <<>>)]
        ELSE \* the exception unwinds; a client whose ping raised is dropped
             [state |-> [S EXCEPT !.connections = conns1, !.order = order1],
              result |-> Result("add_failed", TRUE, host_id, decode_type,
                                NoHandle, AddErrorMessage(host_id, exc), <<>>)]

\* decode_type not in self._connections[host_id], negated (line 128)
HasVariant_Never(conn_dict, decode_type) == FALSE

HasVariant(conn_dict, decode_type) == decode_type \in DOMAIN conn_dict

\* the pool after the lazy build of a variant: the client is stored when both
\* its constructor and its ping succeeded (lines 134-139)
LazyBuild_CacheBeforePing(S, host_id, decode_type, cls, params, stage) ==
    IF stage # "ctor"
    THEN LET clients1 == Construct(S.clients, cls, params, stage)
         IN  [S EXCEPT !.connections =
                          DictSet(S.connections, host_id,
                                  DictSet(S.connections[host_id],
                                          decode_type, Len(clients1))),
                       !.clients = clients1]
    ELSE S

LazyBuild(S, host_id, decode_type, cls, params, stage) ==
    IF stage = "ok"
    THEN LET clients1 == Construct(S.clients, cls, params, stage)
         IN  [S EXCEPT !.connections =
                          DictSet(S.connections, host_id,
                                  DictSet(S.connections[host_id],
                                          decode_type, Len(clients1))),
                       !.clients = clients1]
    ELSE S

\* RedisConnectionPool.get_connection
get_connection(S, host_arg, decode_responses, stage, exc) ==
    LET host_id == IF host_arg = None THEN S.default_host ELSE host_arg
        decode_type == DecodeType(decode_responses)
    IN  IF host_id = None
        THEN [state |-> S,
              result |-> Result("no_connections", TRUE, host_id, decode_type,
                                NoHandle, None, <<>>)]
        ELSE IF host_id \notin DOMAIN S.connections
        THEN [state |-> S,
              result |-> Result("host_not_found", TRUE, host_id, decode_type,
                                NoHandle, None, S.order)]
        ELSE IF HasVariant(S.connections[host_id], decode_type)
        THEN [state |-> S,
              result |-> Result("handle", FALSE, host_id, decode_type,
                                S.connections[host_id][decode_type], None, <<>>)]
        ELSE IF host_id \notin DOMAIN S.configs
        THEN \* self._configs[host_id] raises KeyError outside any try
             [state |-> S,
              result |-> Result("KeyError", TRUE, host_id, decode_type,
                                NoHandle, "KeyError", <<>>)]
        ELSE LET config == S.configs[host_id]
                 params == CreateConnectionParams(config, decode_responses)
                 cls == GetRedisClass(DictGet(config, "cluster_mode", "False"))
                 S1 == LazyBuild(S, host_id, decode_type, cls, params, stage)
             IN  IF stage = "ok"
                 THEN [state |-> S1,
                       result |-> Result("handle", FALSE, host_id, decode_type,
                                         S1.connections[host_id][decode_type],
                                         None, <<>>)]
                 ELSE [state |-> S1,
                       result |-> Result("lazy_build_failed", TRUE, host_id,
                                         decode_type, NoHandle, exc, <<>>)]

\* a client after a close() that returned: it is closed, and what it was
\* built from plays no part any more
ClosedClient == [cls |-> None, params |-> None, pinged |-> TRUE, closed |-> TRUE]

\* conn.close() on every cached handle of an entry; the handles of the modes in
\* closeFails raise in close() and stay open (lines 231-236)
CloseAll(cs, conn_dict, closeFails) ==
    [i \in DOMAIN cs |->
        IF \E m \in DOMAIN conn_dict : conn_dict[m] = i /\ m \notin closeFails
        THEN ClosedClient
        ELSE cs[i]]

\* the default host after host_id was deleted; ord is the key order that remains
\* (lines 245-246)
DefaultAfterRemove_Stale(d, host_id, ord) == d

DefaultAfterRemove(d, host_id, ord) ==
    IF d = host_id
    THEN (IF ord # <<>> THEN Head(ord) ELSE None)
    ELSE d

\* RedisConnectionPool.remove_connection
remove_connection_ClearsDefault(S, host_id, closeFails) ==
    IF host_id \notin DOMAIN S.connections
    THEN [state |-> [S EXCEPT !.default_host = None],
          result |-> Result("remove_not_found", FALSE, host_id, None,
                            NoHandle, None, <<>>),
          closeTried |-> {}]
    ELSE LET conn_dict == S.connections[host_id]
             order1 == SeqRemove(S.order, host_id)
         IN  [state |-> [connections |-> DictDel(S.connections, host_id),
                         order |-> order1,
                         configs |-> DictDel(S.configs, host_id),
                         default_host |->
                            DefaultAfterRemove(S.default_host, host_id, order1),
                         clients |-> CloseAll(S.clients, conn_dict, closeFails)],
              result |-> Result("removed", FALSE, host_id, None,
                                NoHandle, None, <<>>),
              closeTried |-> {conn_dict[m] : m \in DOMAIN conn_dict}]

remove_connection_CloseFatal(S, host_id, closeFails) ==
    IF host_id \notin DOMAIN S.connections
    THEN [state |-> S,
          result |-> Result("remove_not_found", FALSE, host_id, None,
                            NoHandle, None, <<>>),
          closeTried |-> {}]
    ELSE LET conn_dict == S.connections[host_id]
             order1 == SeqRemove(S.order, host_id)
         IN  IF closeFails # {}
             THEN [state |-> S,
                   result |-> Result("close_failed", TRUE, host_id, None,
                                     NoHandle, None, <<>>),
                   closeTried |-> {conn_dict[m] : m \in DOMAIN conn_dict}]
             ELSE [state |-> [connections |-> DictDel(S.connections, host_id),
                              order |-> order1,
                              configs |-> DictDel(S.configs, host_id),
                              default_host |->
                                 DefaultAfterRemove(S.default_host, host_id, order1),
                              clients |-> CloseAll(S.clients, conn_dict, closeFails)],
                   result |-> Result("removed", FALSE, host_id, None,
                                     NoHandle, None, <<>>),
                   closeTried |-> {conn_dict[m] : m \in DOMAIN conn_dict}]

remove_connection(S, host_id, closeFails) ==
    IF host_id \notin DOMAIN S.connections
    THEN [state |-> S,
          result |-> Result("remove_not_found", FALSE, host_id, None,
                            NoHandle, None, <<>>),
          closeTried |-> {}]
    ELSE LET conn_dict == S.connections[host_id]
             order1 == SeqRemove(S.order, host_id)
         IN  [state |-> [connections |-> DictDel(S.connections, host_id),
                         order |-> order1,
                         configs |-> DictDel(S.configs, host_id),
                         default_host |->
                            DefaultAfterRemove(S.default_host, host_id, order1),
                         clients |-> CloseAll(S.clients, conn_dict, closeFails)],
              result |-> Result("removed", FALSE, host_id, None,
                                NoHandle, None, <<>>),
              closeTried |-> {conn_dict[m] : m \in DOMAIN conn_dict}]

\* conn_dict.get(DECODED) or conn_dict.get(RAW)
InfoConn(conn_dict) ==
    IF DECODED \in DOMAIN conn_dict THEN conn_dict[DECODED]
    ELSE IF RAW \in DOMAIN conn_dict THEN conn_dict[RAW]
    ELSE NoHandle

\* one entry of the mapping list_connections returns (lines 154-164, 167-176);
\* the getattr fallbacks read attributes the client objects do not model
Snapshot(S, host_id, failed, exc) ==
    LET config == DictGet(S.configs, host_id, EmptyDict)
        conn_dict == S.connections[host_id]
    IN  [status |-> IF failed THEN "error: " \o exc ELSE "connected",
         host |-> DictGet(config, "host", "unknown"),
         port |-> DictGet(config, "port", "unknown"),
         db |-> DictGet(config, "db", "unknown"),
         cluster_mode |-> DictGet(config, "cluster_mode", "False"),
         ssl |-> DictGet(config, "ssl", "False"),
         is_default |-> (host_id = S.default_host),
         available_modes |-> DOMAIN conn_dict]

\* RedisConnectionPool.list_connections; conn.info("server") raises exc on the
\* hosts of infoFails
list_connections_Aborts(S, infoFails, exc) ==
    LET reported == {h \in DOMAIN S.connections :
                        InfoConn(S.connections[h]) # NoHandle /\ h \notin infoFails}
    IN  [h \in reported |-> Snapshot(S, h, FALSE, exc)]

list_connections(S, infoFails, exc) ==
    LET reported == {h \in DOMAIN S.connections :
                        InfoConn(S.connections[h]) # NoHandle}
    IN  [h \in reported |-> Snapshot(S, h, h \in infoFails, exc)]

\* RedisConnectionPool.get_connection_details; failed: conn.info("server")
\* raises exc. The result is the error object of lines 185 and 189, the
\* details of lines 199-210 or 212-222, or, for an entry that caches no
\* handle, the None a Python function returns when it ends without a return
get_connection_details(S, host_arg, failed, exc) ==
    LET host_id == IF host_arg = None THEN S.default_host ELSE host_arg
    IN  IF host_id = None
        THEN [kind |-> "error", error |-> "No Redis connections available",
              available |-> <<>>, details |-> EmptyDict]
        ELSE IF host_id \notin DOMAIN S.connections
        THEN [kind |-> "error", error |-> "Connection '" \o host_id \o "' not found",
              available |-> S.order, details |-> EmptyDict]
        ELSE IF InfoConn(S.connections[host_id]) # NoHandle
        THEN [kind |-> "details", error |-> None, available |-> <<>>,
              details |-> [host_id |-> host_id]
                             @@ Snapshot(S, host_id, failed, exc)]
        ELSE [kind |-> "None", error |-> None, available |-> <<>>,
              details |-> EmptyDict]

\* switch_default_connection of tools/connection_management.py
switch_default_connection_Unchecked(S, host_id) ==
    [state |-> [S EXCEPT !.default_host = host_id],
     result |-> Result("switched", FALSE, host_id, None, NoHandle, None, <<>>)]

switch_default_connection(S, host_id) ==
    IF host_id \notin DOMAIN S.connections
    THEN [state |-> S,
          result |-> Result("switch_not_found", FALSE, host_id, None,
                            NoHandle, None, S.order)]
    ELSE [state |-> [S EXCEPT !.default_host = host_id],
          result |-> Result("switched", FALSE, host_id, None,
                            NoHandle, None, <<>>)]

\* whether the facade registers the default connection first (line 302)
AutoProvisions_Never(S, host_arg) == FALSE

AutoProvisions_AnyHostId(S, host_arg) == DOMAIN S.connections = {}

AutoProvisions(S, host_arg) ==
    LET host_id == IF host_arg = None THEN S.default_host ELSE host_arg
    IN  DOMAIN S.connections = {} /\ host_id = None

\* RedisConnectionManager.get_connection
manager_get_connection(S, host_arg, decode_responses, stage, exc) ==
    LET host_id == IF host_arg = None THEN S.default_host ELSE host_arg
    IN  IF AutoProvisions(S, host_arg)
        THEN LET added == add_connection(S, DefaultHostId, DefaultConfig,
                                         decode_responses, stage, exc)
             IN  IF added.result.raised THEN added
                 ELSE get_connection(added.state, DefaultHostId,
                                     decode_responses, stage, exc)
        ELSE get_connection(S, host_id, decode_responses, stage, exc)

\* the command wrappers of tools/misc.py and tools/server_management.py; the
\* latter pass a host_id on
CommandWrappers == {"delete", "type", "expire", "rename", "dbsize", "info", "client_list"}
HostIdWrappers == {"dbsize", "info", "client_list"}

\* the wrappers' only clause: except RedisError
WrapperCatches(cls) == cls \in DOMAIN ExcBase /\ IsInstance(cls, "RedisError")

\* a command wrapper: it obtains the connection from the facade, runs its store
\* operation (opExc is what that raises, None when it succeeds) and returns the
\* value, or the message of a caught exception; what it does not catch leaves
\* the wrapper (kind "propagated")
command_wrapper(S, name, host_arg, stage, exc, opExc) ==
    LET got == manager_get_connection(
                   S, IF name \in HostIdWrappers THEN host_arg ELSE None,
                   TRUE, stage, exc)
        \* the pool raises Exception(...), or the KeyError of line 130
        cls == IF got.result.kind = "KeyError" THEN "KeyError" ELSE "Exception"
    IN  IF got.result.raised
        THEN [state |-> got.state, exc |-> cls,
              kind |-> IF WrapperCatches(cls) THEN "message" ELSE "propagated"]
        ELSE IF opExc = None
        THEN [state |-> got.state, exc |-> None, kind |-> "value"]
        ELSE [state |-> got.state, exc |-> opExc,
              kind |-> IF WrapperCatches(opExc) THEN "message" ELSE "propagated"]

\* get_connection reaches the construction of a client (line 135)
Builds(S, host_arg, decode_responses) ==
    LET host_id == IF host_arg = None THEN S.default_host ELSE host_arg
    IN  /\ host_id \in DOMAIN S.connections
        /\ DecodeType(decode_responses) \notin DOMAIN S.connections[host_id]
        /\ host_id \in DOMAIN S.configs

\* the outcomes of the construction a call makes, if it makes one
OutcomesIf(builds) ==
    IF builds THEN Outcomes ELSE {[stage |-> "ok", exc |-> None]}

\* ------------------------------------------------- calls that overlap
\* the threads that call the pool at the same time
Tasks == {1, 2}

\* a thread's call: its position (pc), the method (op), the host_id argument
\* (arg), the local variables host_id (host), decode_responses (decode), config
\* and connection (conn), the length of the dict a for loop began on (size) and
\* the number of items it has taken (seen), whether the call met an entry that
\* lacks a handle or a config (partial), and how it ended (kind, handle)
IdleTask ==
    [pc |-> "idle", op |-> "none", arg |-> None, host |-> None, decode |-> FALSE,
     config |-> EmptyDict, conn |-> NoHandle, size |-> 0, seen |-> 0,
     partial |-> FALSE, kind |-> "none", handle |-> NoHandle]

\* the call returns or raises
Done(task, kind, handle) ==
    [task EXCEPT !.pc = "done", !.kind = kind, !.handle = handle]

\* None as the value of _instance
NoObject == NoHandle

\* RedisConnectionPool before its first call: the class attribute _instance,
\* the number of objects __new__ made, the objects that have _initialized set,
\* and for each thread its position in RedisConnectionPool() and the object
\* __new__ returned to it
Unconstructed ==
    [instance |-> NoObject, objects |-> 0, initialized |-> {},
     pc |-> [t \in Tasks |-> "out"], self |-> [t \in Tasks |-> NoObject]]

\* the same once the one pool object is constructed and initialized; its
\* fields are the variables of the pool
Constructed ==
    [Unconstructed EXCEPT !.instance = 1, !.objects = 1, !.initialized = {1}]

\* ------------------------------------------------------------ the actions
InitPool ==
    /\ connections = EmptyDict
    /\ order = <<>>
    /\ configs = EmptyDict
    /\ default_host = None
    /\ clients = <<>>
    /\ lastOp = [op |-> "init", host |-> None, kind |-> "init", built |-> 0,
                 default_before |-> None, fails |-> 0, error |-> None]
    /\ first_added = None
    /\ first_removed = FALSE
    /\ start = <<>>

\* the pool object exists, __init__ has run and no calls overlap
Init == InitPool /\ tasks = <<>> /\ singleton = Constructed

\* the same with two threads about to call the pool
InitOverlap ==
    InitPool /\ tasks = [t \in Tasks |-> IdleTask] /\ singleton = Constructed

\* the module is imported and RedisConnectionPool() was not called yet
InitClass == InitPool /\ tasks = <<>> /\ singleton = Unconstructed

\* the pool takes the state S
SetPool(S) ==
    /\ connections' = S.connections
    /\ order' = S.order
    /\ configs' = S.configs
    /\ default_host' = S.default_host
    /\ clients' = S.clients

\* the record of a call: its name, its host_id argument, the kind of its
\* outcome, the number of client objects it stored, the default host it
\* started from, the number of close() or info() calls that raised in it and,
\* set by add_connection, the message of the exception it raised
Op(name, host, res, S, fails) ==
    [op |-> name, host |-> host, kind |-> res.kind,
     built |-> Len(S.clients) - Len(clients),
     default_before |-> default_host, fails |-> fails, error |-> None]

\* add_connection with the construction ending in one of outs
AddConnectionWith(outs) ==
    \E h \in HostIds, cfg \in Configs, d \in BOOLEAN, o \in outs :
        \E r \in {add_connection(PoolState, h, cfg, d, o.stage, o.exc)} :
            /\ Len(r.state.clients) <= MaxClients
            /\ SetPool(r.state)
            /\ lastOp' = [Op("add_connection", h, r.result, r.state, 0)
                              EXCEPT !.error = r.result.exc]
            /\ first_added' = IF first_added = None /\ ~r.result.raised
                              THEN h ELSE first_added
            /\ UNCHANGED <<first_removed, overlap>>

AddConnection == AddConnectionWith(Outcomes)

\* add_connection with each of the exceptions its except clauses name
AddConnectionDriver == AddConnectionWith(DriverOutcomes)

GetConnection ==
    \E h \in HostIds \cup {None}, d \in BOOLEAN :
    \E o \in OutcomesIf(Builds(PoolState, h, d)) :
        \E r \in {get_connection(PoolState, h, d, o.stage, o.exc)} :
            /\ Len(r.state.clients) <= MaxClients
            /\ SetPool(r.state)
            /\ lastOp' = Op("get_connection", h, r.result, r.state, 0)
            /\ UNCHANGED <<first_added, first_removed, overlap>>

ManagerGetConnection ==
    \E h \in HostIds \cup {None}, d \in BOOLEAN :
    \E o \in OutcomesIf(Builds(PoolState, h, d) \/ AutoProvisions(PoolState, h)) :
        \E r \in {manager_get_connection(PoolState, h, d, o.stage, o.exc)} :
            /\ Len(r.state.clients) <= MaxClients
            /\ SetPool(r.state)
            /\ lastOp' = Op("manager_get_connection", h, r.result, r.state, 0)
            /\ first_added' = IF first_added = None /\ AutoProvisions(PoolState, h)
                                 /\ ~r.result.raised
                              THEN DefaultHostId ELSE first_added
            /\ UNCHANGED <<first_removed, overlap>>

RemoveConnection ==
    \E h \in HostIds :
    \E closeFails \in SUBSET DOMAIN DictGet(connections, h, EmptyDict) :
        \E r \in {remove_connection(PoolState, h, closeFails)} :
            /\ SetPool(r.state)
            /\ lastOp' = Op("remove_connection", h, r.result, r.state,
                            Cardinality(closeFails))
            /\ first_removed' = (first_removed \/ (first_added # None /\ h = first_added))
            /\ UNCHANGED <<first_added, overlap>>

\* info() can raise on the hosts list_connections calls it on
ListConnections ==
    \E e \in ExcKinds :
    \E infoFails \in SUBSET DOMAIN list_connections(PoolState, {}, e) :
        /\ lastOp' = Op("list_connections", None, [kind |-> "listed"], PoolState,
                        Cardinality(infoFails \cap
                                    DOMAIN list_connections(PoolState, infoFails, e)))
        /\ UNCHANGED <<connections, order, configs, default_host, clients,
                       first_added, first_removed, overlap>>

GetConnectionDetails ==
    \E h \in HostIds \cup {None}, failed \in BOOLEAN, e \in ExcKinds :
        \E r \in {get_connection_details(PoolState, h, failed, e)} :
            /\ failed => r.kind = "details"
            /\ lastOp' = Op("get_connection_details", h, r, PoolState,
                            IF failed THEN 1 ELSE 0)
            /\ UNCHANGED <<connections, order, configs, default_host, clients,
                           first_added, first_removed, overlap>>

SwitchDefaultConnection ==
    \E h \in HostIds :
        \E r \in {switch_default_connection(PoolState, h)} :
            /\ SetPool(r.state)
            /\ lastOp' = Op("switch_default_connection", h, r.result, r.state, 0)
            /\ UNCHANGED <<first_added, first_removed, overlap>>

Next ==
    \/ AddConnection
    \/ GetConnection
    \/ ManagerGetConnection
    \/ RemoveConnection
    \/ ListConnections
    \/ GetConnectionDetails
    \/ SwitchDefaultConnection

Spec == Init /\ [][Next]_vars

\* the calls of the pool and of the facade, without the default-switch tool
NextPool ==
    \/ AddConnection
    \/ GetConnection
    \/ ManagerGetConnection
    \/ RemoveConnection
    \/ ListConnections
    \/ GetConnectionDetails

SpecPool == Init /\ [][NextPool]_vars

\* registrations whose construction raises any of the driver's exceptions,
\* and removals
NextErrors ==
    \/ AddConnectionDriver
    \/ RemoveConnection

SpecErrors == Init /\ [][NextErrors]_vars

\* ------------------------------------ the steps of calls that overlap
\* The methods of the pool hold no lock. The steps below are the statements of
\* a method between which another thread's statements can run: the blocking
\* calls (the construction and ping of a client, close(), info()) separate
\* them. Each thread makes one call.
SetTask(t, task) == tasks' = [tasks EXCEPT ![t] = task]

\* the first of the overlapping calls begins
Begin == start' = IF start = <<>> THEN <<PoolState>> ELSE start

history == <<lastOp, first_added, first_removed, singleton>>

\* registrations made before the calls overlap
SetupAdd ==
    /\ start = <<>>
    /\ \E h \in HostIds, d \in BOOLEAN, o \in Outcomes :
          \E r \in {add_connection(PoolState, h, DefaultConfig, d, o.stage, o.exc)} :
              /\ Len(r.state.clients) <= MaxSetupClients
              /\ SetPool(r.state)
    /\ UNCHANGED <<history, tasks, start>>

\* get_connection, lines 115-130: the tests and the read of the config
GetCheck ==
    \E t \in Tasks, h \in HostIds \cup {None}, d \in BOOLEAN :
        /\ tasks[t].pc = "idle"
        /\ LET host_id == IF h = None THEN default_host ELSE h
               call == [IdleTask EXCEPT !.op = "get", !.arg = h, !.host = host_id,
                                        !.decode = d]
           IN  SetTask(t,
                 IF host_id = None THEN Done(call, "no_connections", NoHandle)
                 ELSE IF host_id \notin DOMAIN connections
                 THEN Done(call, "host_not_found", NoHandle)
                 ELSE IF HasVariant(connections[host_id], DecodeType(d))
                 THEN Done(call, "handle", connections[host_id][DecodeType(d)])
                 ELSE IF host_id \notin DOMAIN configs
                 THEN Done(call, "KeyError", NoHandle)
                 ELSE [call EXCEPT !.pc = "get_build", !.config = configs[host_id]])
        /\ Begin
        /\ UNCHANGED <<connections, order, configs, default_host, clients, history>>

\* a thread constructs and pings its client (lines 81-86 and 131-136); a
\* failure ends the call with the exception kind raises
Build(t, o, next, kind) ==
    LET task == tasks[t]
        cls == GetRedisClass(DictGet(task.config, "cluster_mode", "False"))
        params == CreateConnectionParams(task.config, task.decode)
        clients1 == Construct(clients, cls, params, o.stage)
    IN  IF o.stage = "ok"
        THEN /\ clients' = clients1
             /\ SetTask(t, [task EXCEPT !.pc = next, !.conn = Len(clients1)])
        ELSE /\ clients' = clients
             /\ SetTask(t, Done(task, kind, NoHandle))

GetBuild ==
    \E t \in Tasks, o \in Outcomes :
        /\ tasks[t].pc = "get_build"
        /\ Build(t, o, "get_store", "lazy_build_failed")
        /\ UNCHANGED <<connections, order, configs, default_host, history, start>>

\* get_connection, lines 137-141: the store of the client and the return; the
\* KeyError of a host removed meanwhile is caught at line 138
GetStore ==
    \E t \in Tasks :
        LET task == tasks[t]
        IN  /\ task.pc = "get_store"
            /\ IF task.host \in DOMAIN connections
               THEN /\ connections' =
                         DictSet(connections, task.host,
                                 DictSet(connections[task.host],
                                         DecodeType(task.decode), task.conn))
                    /\ SetTask(t, Done(task, "handle", task.conn))
               ELSE /\ connections' = connections
                    /\ SetTask(t, Done(task, "lazy_build_failed", NoHandle))
            /\ UNCHANGED <<order, configs, default_host, clients, history, start>>

\* add_connection, lines 73-79: the entry is made
AddEntry ==
    \E t \in Tasks, h \in HostIds, d \in BOOLEAN :
        /\ tasks[t].pc = "idle"
        /\ connections' = EntryBeforeBuild(connections, h)
        /\ order' = OrderBeforeBuild(order, connections, h)
        /\ SetTask(t, [IdleTask EXCEPT !.pc = "add_build", !.op = "add", !.arg = h,
                                       !.host = h, !.decode = d,
                                       !.config = DefaultConfig])
        /\ Begin
        /\ UNCHANGED <<configs, default_host, clients, history>>

AddBuild ==
    \E t \in Tasks, o \in Outcomes :
        /\ tasks[t].pc = "add_build"
        /\ Build(t, o, "add_store", "add_failed")
        /\ UNCHANGED <<connections, order, configs, default_host, history, start>>

\* add_connection, lines 89-96: the stores of the client, of the config and of
\* the default; the KeyError of a host removed meanwhile is caught at line 110
AddStore ==
    \E t \in Tasks :
        LET task == tasks[t]
        IN  /\ task.pc = "add_store"
            /\ IF task.host \in DOMAIN connections
               THEN /\ connections' =
                         DictSet(connections, task.host,
                                 DictSet(connections[task.host],
                                         DecodeType(task.decode), task.conn))
                    /\ configs' = DictSet(configs, task.host, task.config)
                    /\ default_host' = DefaultAfterAdd(default_host, task.host)
                    /\ SetTask(t, Done(task, "connected", NoHandle))
               ELSE /\ UNCHANGED <<connections, configs, default_host>>
                    /\ SetTask(t, Done(task, "add_failed", NoHandle))
            /\ UNCHANGED <<order, clients, history, start>>

\* remove_connection, lines 226-238: the test and the close() calls
RemoveClose ==
    \E t \in Tasks, h \in HostIds :
        LET call == [IdleTask EXCEPT !.op = "remove", !.arg = h, !.host = h]
        IN  /\ tasks[t].pc = "idle"
            /\ IF h \in DOMAIN connections
               THEN /\ clients' = CloseAll(clients, connections[h], {})
                    /\ SetTask(t, [call EXCEPT !.pc = "remove_delete"])
               ELSE /\ clients' = clients
                    /\ SetTask(t, Done(call, "remove_not_found", NoHandle))
            /\ Begin
            /\ UNCHANGED <<connections, order, configs, default_host, history>>

\* remove_connection, lines 241-248: the deletions and the new default; the del
\* of a host removed meanwhile raises KeyError
RemoveDelete ==
    \E t \in Tasks :
        LET task == tasks[t]
        IN  /\ task.pc = "remove_delete"
            /\ IF task.host \in DOMAIN connections
               THEN /\ connections' = DictDel(connections, task.host)
                    /\ order' = SeqRemove(order, task.host)
                    /\ configs' = DictDel(configs, task.host)
                    /\ default_host' = DefaultAfterRemove(default_host, task.host,
                                                          SeqRemove(order, task.host))
                    /\ SetTask(t, Done(task, "removed", NoHandle))
               ELSE /\ UNCHANGED <<connections, order, configs, default_host>>
                    /\ SetTask(t, Done(task, "KeyError", NoHandle))
            /\ UNCHANGED <<clients, history, start>>

\* the entry of host_id lacks a handle or a config
Partial(host_id) ==
    /\ host_id \in DOMAIN connections
    /\ \/ InfoConn(connections[host_id]) = NoHandle
       \/ host_id \notin DOMAIN configs

\* list_connections, lines 145-150: the for loop takes the first item of
\* _connections and calls info() on its client
ListBegin ==
    \E t \in Tasks :
        LET call == [IdleTask EXCEPT !.op = "list"]
        IN  /\ tasks[t].pc = "idle"
            /\ SetTask(t, IF order = <<>> THEN Done(call, "listed", NoHandle)
                          ELSE [call EXCEPT !.pc = "list_next", !.size = Len(order),
                                            !.seen = 1,
                                            !.partial = Partial(order[1])])
            /\ Begin
            /\ UNCHANGED <<connections, order, configs, default_host, clients,
                           history>>

\* list_connections, line 146 again: the dict iterator raises RuntimeError when
\* the dict changed its size since the loop began, ends the loop after the last
\* item and gives the next item otherwise
ListNext ==
    \E t \in Tasks :
        LET task == tasks[t]
        IN  /\ task.pc = "list_next"
            /\ SetTask(t, IF Len(order) # task.size
                          THEN Done(task, "RuntimeError", NoHandle)
                          ELSE IF task.seen = task.size
                          THEN Done(task, "listed", NoHandle)
                          ELSE [task EXCEPT !.seen = task.seen + 1,
                                            !.partial = task.partial
                                                \/ Partial(order[task.seen + 1])])
            /\ UNCHANGED <<connections, order, configs, default_host, clients,
                           history, start>>

\* get_connection_details, whose statements read the pool at one time
DetailsRead ==
    \E t \in Tasks, h \in HostIds \cup {None} :
        LET r == get_connection_details(PoolState, h, FALSE, None)
            host_id == IF h = None THEN default_host ELSE h
            call == [IdleTask EXCEPT !.op = "details", !.arg = h, !.host = host_id,
                                     !.partial = Partial(host_id)]
        IN  /\ tasks[t].pc = "idle"
            /\ SetTask(t, Done(call, r.kind, NoHandle))
            /\ Begin
            /\ UNCHANGED <<connections, order, configs, default_host, clients,
                           history>>

\* switch_default_connection, lines 166-169: the test
SwitchCheck ==
    \E t \in Tasks, h \in HostIds :
        LET call == [IdleTask EXCEPT !.op = "switch", !.arg = h, !.host = h]
        IN  /\ tasks[t].pc = "idle"
            /\ SetTask(t, IF h \notin DOMAIN connections
                          THEN Done(call, "switch_not_found", NoHandle)
                          ELSE [call EXCEPT !.pc = "switch_set"])
            /\ Begin
            /\ UNCHANGED <<connections, order, configs, default_host, clients,
                           history>>

\* switch_default_connection, lines 171-174: the store of the default
SwitchSet ==
    \E t \in Tasks :
        /\ tasks[t].pc = "switch_set"
        /\ default_host' = tasks[t].host
        /\ SetTask(t, Done(tasks[t], "switched", NoHandle))
        /\ UNCHANGED <<connections, order, configs, clients, history, start>>

NextOverlap ==
    \/ SetupAdd
    \/ GetCheck \/ GetBuild \/ GetStore
    \/ AddEntry \/ AddBuild \/ AddStore
    \/ RemoveClose \/ RemoveDelete
    \/ SwitchCheck \/ SwitchSet
    \/ ListBegin \/ ListNext
    \/ DetailsRead

SpecOverlap == InitOverlap /\ [][NextOverlap]_vars

\* ----------------------------------- the steps of RedisConnectionPool()
\* get_instance, get_pool and every classmethod of the pool call cls(), which
\* runs __new__ and then __init__ on the object __new__ returned; neither takes
\* a lock. The variables of the pool are the fields of the first object made.
Enter(t, pc, self) ==
    singleton' = [singleton EXCEPT !.pc[t] = pc, !.self[t] = self]

\* __new__, line 24: the test of _instance, and line 26 when it is set
NewCheck ==
    \E t \in Tasks :
        /\ singleton.pc[t] = "out"
        /\ IF singleton.instance = NoObject
           THEN Enter(t, "new_create", NoObject)
           ELSE Enter(t, "init_check", singleton.instance)
        /\ UNCHANGED <<connections, order, configs, default_host, clients, lastOp,
                       first_added, first_removed, tasks, start>>

\* __new__, lines 25-26: a new object is made, stored in _instance and returned
NewCreate ==
    \E t \in Tasks :
        /\ singleton.pc[t] = "new_create"
        /\ singleton' = [singleton EXCEPT !.objects = @ + 1,
                                          !.instance = singleton.objects + 1,
                                          !.pc[t] = "init_check",
                                          !.self[t] = singleton.objects + 1]
        /\ UNCHANGED <<connections, order, configs, default_host, clients, lastOp,
                       first_added, first_removed, tasks, start>>

\* __init__, line 29: the test of self._initialized
InitCheck ==
    \E t \in Tasks :
        /\ singleton.pc[t] = "init_check"
        /\ Enter(t, IF singleton.self[t] \in singleton.initialized
                    THEN "has" ELSE "init_fields", singleton.self[t])
        /\ UNCHANGED <<connections, order, configs, default_host, clients, lastOp,
                       first_added, first_removed, tasks, start>>

\* __init__, lines 31-34: the fields of self are set to empty and
\* self._initialized to True
InitFields ==
    \E t \in Tasks :
        /\ singleton.pc[t] = "init_fields"
        /\ singleton' = [singleton EXCEPT
                            !.initialized = @ \cup {singleton.self[t]},
                            !.pc[t] = "has"]
        /\ IF singleton.self[t] = 1
           THEN /\ connections' = EmptyDict
                /\ order' = <<>>
                /\ configs' = EmptyDict
                /\ default_host' = None
           ELSE UNCHANGED <<connections, order, configs, default_host>>
        /\ UNCHANGED <<clients, lastOp, first_added, first_removed, tasks, start>>

\* a thread calls add_connection on the object it got
UseAdd ==
    \E t \in Tasks, h \in HostIds, d \in BOOLEAN, o \in Outcomes :
        \E r \in {add_connection(PoolState, h, DefaultConfig, d, o.stage, o.exc)} :
            /\ singleton.pc[t] = "has" /\ singleton.self[t] = 1
            /\ Len(r.state.clients) <= MaxClients
            /\ SetPool(r.state)
            /\ UNCHANGED <<lastOp, first_added, first_removed, overlap>>

\* the call has returned; the thread may call RedisConnectionPool() again
Leave ==
    \E t \in Tasks :
        /\ singleton.pc[t] = "has"
        /\ Enter(t, "out", NoObject)
        /\ UNCHANGED <<connections, order, configs, default_host, clients, lastOp,
                       first_added, first_removed, tasks, start>>

NextClass ==
    \/ NewCheck \/ NewCreate
    \/ InitCheck \/ InitFields
    \/ UseAdd
    \/ Leave

SpecClass == InitClass /\ [][NextClass]_vars

\* ------------------------------------------- the connection parameters
\* _create_connection_params is called on a config and a decode flag
CreateParams ==
    \E config \in ParamConfigs, d \in BOOLEAN :
        /\ lastOp' = [op |-> "_create_connection_params", config |-> config,
                      decode_responses |-> d,
                      params |-> CreateConnectionParams(config, d)]
        /\ UNCHANGED <<connections, order, configs, default_host, clients,
                       first_added, first_removed, overlap>>

SpecParams == Init /\ [][CreateParams]_vars

\* ------------------------------------------ the caller's config dict
\* dict objects are the indices of a heap; config.copy() (line 90) makes a new
\* object with the items of config
ConfigCopy_Alias(heap, ref) == [heap |-> heap, ref |-> ref]

ConfigCopy(heap, ref) == [heap |-> Append(heap, heap[ref]), ref |-> Len(heap) + 1]

\* what a caller changes in its dict after the call
MutatedKeys == {"host", "db"}
MutatedValue == "changed"

\* the history of the calls of one caller: the heap of dict objects, the dicts
\* callers passed (callers), per host the object _configs holds (stored), the
\* dict it was added from (source) and the items that dict had then (added)
InitCopy ==
    /\ connections = EmptyDict /\ order = <<>> /\ configs = EmptyDict
    /\ default_host = None /\ clients = <<>>
    /\ first_added = None /\ first_removed = FALSE
    /\ tasks = <<>> /\ start = <<>> /\ singleton = Constructed
    /\ lastOp = [op |-> "init", host |-> None, kind |-> "init", built |-> 0,
                 decode |-> TRUE, heap |-> <<>>, callers |-> {},
                 stored |-> EmptyDict, source |-> EmptyDict, added |-> EmptyDict]

\* a caller builds a config dict and calls add_connection with it
CopyAdd ==
    \E h \in HostIds, cfg \in Configs, d \in BOOLEAN, o \in Outcomes :
        LET heap1 == Append(lastOp.heap, cfg)
            c == Len(heap1)
            r == add_connection(PoolState, h, cfg, d, o.stage, o.exc)
            cp == ConfigCopy(heap1, c)
        IN  /\ Cardinality(lastOp.callers) < MaxCallerDicts
            /\ SetPool(r.state)
            /\ lastOp' =
                  IF r.result.raised
                  THEN [lastOp EXCEPT !.op = "add_connection", !.host = h,
                                      !.kind = r.result.kind, !.built = 0,
                                      !.decode = d]
                  ELSE [lastOp EXCEPT !.op = "add_connection", !.host = h,
                                      !.kind = r.result.kind, !.built = 1,
                                      !.decode = d, !.heap = cp.heap,
                                      !.callers = @ \cup {c},
                                      !.stored = DictSet(@, h, cp.ref),
                                      !.source = DictSet(@, h, c),
                                      !.added = DictSet(@, h, cfg)]
            /\ UNCHANGED <<first_added, first_removed, overlap>>

\* the caller changes an item of a dict it passed; _configs shows what the
\* objects it holds now contain
CopyMutate ==
    \E c \in lastOp.callers, k \in MutatedKeys :
        LET heap2 == [lastOp.heap EXCEPT ![c] = DictSet(@, k, MutatedValue)]
        IN  /\ lastOp.heap[c][k] # MutatedValue
            /\ lastOp' = [lastOp EXCEPT !.op = "mutate", !.host = None,
                                        !.kind = "mutated", !.built = 0,
                                        !.heap = heap2]
            /\ configs' = [h \in DOMAIN configs |-> heap2[lastOp.stored[h]]]
            /\ UNCHANGED <<connections, order, default_host, clients,
                           first_added, first_removed, overlap>>

\* get_connection, which builds the missing variant from _configs[host_id]
CopyGet ==
    \E h \in HostIds, d \in BOOLEAN :
    \E o \in OutcomesIf(Builds(PoolState, h, d)) :
        \E r \in {get_connection(PoolState, h, d, o.stage, o.exc)} :
            /\ SetPool(r.state)
            /\ lastOp' = [lastOp EXCEPT !.op = "get_connection", !.host = h,
                                        !.kind = r.result.kind,
                                        !.built = Len(r.state.clients) - Len(clients),
                                        !.decode = d]
            /\ UNCHANGED <<first_added, first_removed, overlap>>

NextCopy == CopyAdd \/ CopyMutate \/ CopyGet

SpecCopy == InitCopy /\ [][NextCopy]_vars

\* ------------------------------------------------------ the key scan
\* the cursor values the tool takes and returns: an int, or the dict of the
\* cursors of the nodes
IntCursor(n) == [type |-> "int", value |-> n]
DictCursor(node_cursors) == [type |-> "dict", value |-> node_cursors]

\* Python's cursor == 0
IsZero(cursor) == cursor.type = "int" /\ cursor.value = 0

\* the stores scanned: a server, or a cluster of nodes; a node holds the keys
\* <<node, 1>> .. <<node, size>>, all matching the pattern
ScanStores ==
    {[is_cluster |-> FALSE, nodes |-> <<n>>] : n \in 0..MaxKeys}
    \cup {[is_cluster |-> TRUE, nodes |-> ns] :
             ns \in UNION {[1..l -> 0..MaxKeys] : l \in 1..MaxNodes}}

StoreKeys(store) ==
    {<<i, j>> : i \in DOMAIN store.nodes, j \in 1..MaxKeys} \cap
    UNION {{<<i, j>> : j \in 1..store.nodes[i]} : i \in DOMAIN store.nodes}

\* the server's SCAN on one node: the next `taken` keys after the cursor and
\* the cursor to go on from, 0 at the end
NodeScan(size, node, cursor, taken) ==
    LET last == IF cursor + taken < size THEN cursor + taken ELSE size
    IN  [cursor |-> IF last >= size THEN 0 ELSE last,
         keys |-> {<<node, j>> : j \in (cursor + 1)..last}]

\* scan_keys; `taken` is what each node's SCAN returns of the count hint,
\* `fails` are the nodes whose scan raises
scan_keys(store, cursor, taken, fails) ==
    IF store.is_cluster
    THEN \* lines 141-182
         IF IsZero(cursor)
         THEN LET scans == [i \in DOMAIN store.nodes |->
                              IF i \in fails THEN [cursor |-> 0, keys |-> {}]
                              ELSE NodeScan(store.nodes[i], i, 0, taken[i])]
                  node_cursors == [i \in DOMAIN store.nodes |-> scans[i].cursor]
              IN  [kind |-> "result", cursor |-> DictCursor(node_cursors),
                   keys |-> UNION {scans[i].keys : i \in DOMAIN store.nodes},
                   scan_complete |-> \A i \in DOMAIN store.nodes : node_cursors[i] = 0]
         ELSE [kind |-> "result", cursor |-> IntCursor(0), keys |-> {},
               scan_complete |-> TRUE]
    ELSE \* lines 183-207
         IF 1 \in fails \/ cursor.type # "int"
         THEN [kind |-> "error", cursor |-> cursor, keys |-> {},
               scan_complete |-> FALSE]
         ELSE LET scan == NodeScan(store.nodes[1], 1, cursor.value, taken[1])
              IN  [kind |-> "result", cursor |-> IntCursor(scan.cursor),
                   keys |-> scan.keys, scan_complete |-> scan.cursor = 0]

\* a caller is about to iterate over a store, from cursor 0
InitScan ==
    /\ connections = EmptyDict /\ order = <<>> /\ configs = EmptyDict
    /\ default_host = None /\ clients = <<>>
    /\ first_added = None /\ first_removed = FALSE
    /\ tasks = <<>> /\ start = <<>> /\ singleton = Constructed
    /\ \E store \in ScanStores, count \in 1..MaxCount :
          lastOp = [op |-> "scan_start", store |-> store, count |-> count,
                    kind |-> "result", cursor |-> IntCursor(0), keys |-> {},
                    scan_complete |-> FALSE, failed |-> FALSE]

\* the caller calls scan_keys with the cursor of the previous result and adds
\* the returned keys to what it has
ScanKeys ==
    /\ lastOp.kind = "result" /\ ~lastOp.scan_complete
    /\ \E taken \in [DOMAIN lastOp.store.nodes -> 1..lastOp.count],
          fails \in SUBSET DOMAIN lastOp.store.nodes :
          LET r == scan_keys(lastOp.store, lastOp.cursor, taken, fails)
          IN  lastOp' = [lastOp EXCEPT !.op = "scan_keys", !.kind = r.kind,
                                       !.cursor = r.cursor,
                                       !.keys = @ \cup r.keys,
                                       !.scan_complete = r.scan_complete,
                                       !.failed = @ \/ fails # {}]
    /\ UNCHANGED <<connections, order, configs, default_host, clients,
                   first_added, first_removed, overlap>>

SpecScan == InitScan /\ [][ScanKeys]_vars

\* --------------------------------------------------- the complete scan
\* the handlers of scan_all_keys (lines 300-303): except RedisError, then
\* except Exception
ScanAllCatches(cls) == WrapperCatches(cls) \/ cls \in {"Exception", "KeyError"}

\* how the call ends when cls is raised outside the loop over the nodes
ScanAllRaised(op, cls) ==
    [op EXCEPT !.pc = "done", !.exc = cls,
               !.kind = IF ScanAllCatches(cls) THEN "message" ELSE "propagated"]

\* the scan of a node is over: the for loop takes the next node (line 240), or
\* the list is returned (line 299)
ScanAllNodeDone_Aborts(op) == [op EXCEPT !.pc = "done", !.kind = "list"]

ScanAllNodeDone(op) ==
    IF op.store.is_cluster /\ op.node < Len(op.store.nodes)
    THEN [op EXCEPT !.node = @ + 1, !.cursor = 0]
    ELSE [op EXCEPT !.pc = "done", !.kind = "list"]

\* scan_all_keys is called on a store; yielded are the keys the SCAN batches
\* have returned, failed the nodes whose scan raised
InitScanAll ==
    /\ connections = EmptyDict /\ order = <<>> /\ configs = EmptyDict
    /\ default_host = None /\ clients = <<>>
    /\ first_added = None /\ first_removed = FALSE
    /\ tasks = <<>> /\ start = <<>> /\ singleton = Constructed
    /\ \E store \in ScanStores, batch_size \in 1..MaxCount :
          lastOp = [op |-> "scan_all_keys", store |-> store,
                    batch_size |-> batch_size, pc |-> "start", node |-> 1,
                    cursor |-> 0, all_keys |-> {}, yielded |-> {},
                    failed |-> {}, kind |-> None, exc |-> None]

\* lines 228-236: the connection and its details are obtained; obtaining it
\* raises the pool's Exception or the KeyError of connection.py line 130
ScanAllBegin ==
    /\ lastOp.op = "scan_all_keys" /\ lastOp.pc = "start"
    /\ \E got \in {"ok", "Exception", "KeyError"} :
          lastOp' = IF got = "ok" THEN [lastOp EXCEPT !.pc = "scan"]
                    ELSE ScanAllRaised(lastOp, got)
    /\ UNCHANGED <<connections, order, configs, default_host, clients,
                   first_added, first_removed, overlap>>

\* one pass of the while loop (lines 243-267, 274-297): SCAN returns the next
\* keys of the node and a cursor, or raises
ScanAllBatch ==
    /\ lastOp.op = "scan_all_keys" /\ lastOp.pc = "scan"
    /\ \/ \E taken \in 1..lastOp.batch_size :
             LET scan == NodeScan(lastOp.store.nodes[lastOp.node], lastOp.node,
                                  lastOp.cursor, taken)
                 got == [lastOp EXCEPT !.all_keys = @ \cup scan.keys,
                                       !.yielded = @ \cup scan.keys,
                                       !.cursor = scan.cursor]
             IN  lastOp' = IF scan.cursor = 0 THEN ScanAllNodeDone(got) ELSE got
       \/ \E e \in DriverExcKinds \ {"ValueError"} :
             lastOp' =
                 IF lastOp.store.is_cluster
                 THEN \* lines 268-270: the node is skipped
                      ScanAllNodeDone([lastOp EXCEPT !.failed = @ \cup {lastOp.node}])
                 ELSE ScanAllRaised([lastOp EXCEPT !.failed = @ \cup {lastOp.node}], e)
    /\ UNCHANGED <<connections, order, configs, default_host, clients,
                   first_added, first_removed, overlap>>

NextScanAll == ScanAllBegin \/ ScanAllBatch

SpecScanAll == InitScanAll /\ [][NextScanAll]_vars

\* the call runs to its end without awaiting, and the premise of the tool: the
\* SCAN calls keep returning until each node's cursor is back at 0
SpecScanAllLive == SpecScanAll /\ WF_vars(NextScanAll)

TypeOK ==
    /\ DOMAIN connections \subseteq HostIds
    /\ DOMAIN configs \subseteq HostIds
    /\ default_host \in HostIds \cup {None}
    /\ Len(clients) <= MaxClients + Cardinality({t \in DOMAIN tasks : tasks[t].conn # NoHandle})

\* ------------------------------------------------------------- the claims
\* the host id a call resolves its host_id argument to
Resolved(host_arg, dflt) == IF host_arg = None THEN dflt ELSE host_arg

\* the fields of the pool are the same after the step
PoolUnchanged == UNCHANGED <<connections, order, configs, default_host, clients>>

\* C1: whenever the registry holds a connection entry, the default host id is
\* not none and is the id of an existing entry.
C1_DefaultReferencesEntry ==
    DOMAIN connections # {} =>
        (default_host # None /\ default_host \in DOMAIN connections)

\* C2: an add_connection that fails leaves the registry exactly as it was:
\* same host ids, same configs, same cached handles, same default.
C2_FailedAddLeavesRegistry ==
    [][(lastOp'.op = "add_connection" /\ lastOp'.kind = "add_failed")
          => PoolUnchanged]_vars

\* C3: without default switches, the default host id is the first host id whose
\* add_connection succeeded, for as long as that host has not been removed.
C3_DefaultIsFirstAdded ==
    (first_added # None /\ ~first_removed) => default_host = first_added

\* a failed add came first, then the first successful add, then another
\* successful add, and the default is still the first one added
C3_Witness ==
    /\ first_added # None /\ ~first_removed
    /\ Len(order) = 2 /\ order[1] # first_added
    /\ DOMAIN configs = HostIds
    /\ lastOp.op = "get_connection"

\* C4: a get_connection for a cached (host, mode) returns the cached handle and
\* stores no client; one for a missing mode that succeeds stores exactly one new
\* client, caches it, and later calls return that same handle and store none;
\* a cached handle is replaced only by an add or a remove for its host.
C4_CachedNow ==
    \A h \in DOMAIN connections, d \in BOOLEAN, o \in Outcomes :
        LET m == DecodeType(d)
            r == get_connection(PoolState, h, d, o.stage, o.exc)
        IN  /\ m \in DOMAIN connections[h] =>
                  /\ r.result.kind = "handle"
                  /\ r.result.handle = connections[h][m]
                  /\ r.state = PoolState
            /\ (m \notin DOMAIN connections[h] /\ r.result.kind = "handle") =>
                  /\ Len(r.state.clients) = Len(clients) + 1
                  /\ r.result.handle = Len(r.state.clients)
                  /\ r.state.connections[h][m] = r.result.handle
                  /\ \A o2 \in Outcomes :
                        LET r2 == get_connection(r.state, h, d, o2.stage, o2.exc)
                        IN  /\ r2.result.kind = "handle"
                            /\ r2.result.handle = r.result.handle
                            /\ r2.state = r.state

C4_CachedKept ==
    \A h \in DOMAIN connections : \A m \in DOMAIN connections[h] :
        \/ lastOp'.op \in {"add_connection", "remove_connection"} /\ lastOp'.host = h
        \/ /\ h \in DOMAIN connections'
           /\ m \in DOMAIN connections'[h]
           /\ connections'[h][m] = connections[h][m]

C4_CachedHandleStable == [](C4_CachedNow) /\ [][C4_CachedKept]_vars

\* a get_connection built the RAW variant of a host whose DECODED handle is older
C4_Witness ==
    /\ lastOp.op = "get_connection" /\ lastOp.kind = "handle" /\ lastOp.built = 1
    /\ lastOp.host \in DOMAIN connections
    /\ DOMAIN connections[lastOp.host] = DecodeResponsesType
    /\ connections[lastOp.host][DECODED] < connections[lastOp.host][RAW]

\* C5: removing the current default leaves a default that is one of the remaining
\* hosts, or none when no host remains, and then get_connection() without a
\* host id raises the no-connections error.
C5_RemoveDefault ==
    [][(lastOp'.op = "remove_connection" /\ lastOp'.kind = "removed"
          /\ lastOp'.host = default_host)
       => IF DOMAIN connections' # {}
          THEN default_host' \in DOMAIN connections'
          ELSE /\ default_host' = None
               /\ \A d \in BOOLEAN, o \in Outcomes :
                     get_connection(PoolState', None, d, o.stage, o.exc).result.kind
                        = "no_connections"]_vars

\* the default was removed while another host remained
C5_Witness ==
    /\ lastOp.op = "remove_connection" /\ lastOp.kind = "removed"
    /\ lastOp.default_before = lastOp.host
    /\ DOMAIN connections # {}
    /\ default_host \in DOMAIN connections

\* C6: remove_connection of an unregistered host id returns the not-found
\* message and leaves hosts, configs, handles and default as they were, closing
\* no handle.
C6_RemoveUnknown ==
    [][(lastOp'.op = "remove_connection" /\ lastOp'.host \notin DOMAIN connections)
       => (lastOp'.kind = "remove_not_found" /\ PoolUnchanged)]_vars

\* an unknown host was removed from a registry that has a default
C6_Witness ==
    /\ lastOp.op = "remove_connection" /\ lastOp.kind = "remove_not_found"
    /\ default_host # None

\* C7: remove_connection of a registered host tries to close each of its cached
\* handles and, whether or not a close raises, deletes its entry and its config
\* and returns the success message; get_connection for it then raises
\* host-not-found and the other hosts' entries are untouched.
C7_CloseTried ==
    \A h \in DOMAIN connections, closeFails \in SUBSET DecodeResponsesType :
        LET r == remove_connection(PoolState, h, closeFails)
        IN  /\ r.closeTried = {connections[h][m] : m \in DOMAIN connections[h]}
            /\ \A m \in DOMAIN connections[h] \ closeFails :
                  r.state.clients[connections[h][m]].closed

C7_Removed ==
    (lastOp'.op = "remove_connection" /\ lastOp'.host \in DOMAIN connections)
    => /\ lastOp'.kind = "removed"
       /\ lastOp'.host \notin DOMAIN connections'
       /\ lastOp'.host \notin DOMAIN configs'
       /\ \A g \in DOMAIN connections \ {lastOp'.host} :
             g \in DOMAIN connections' /\ connections'[g] = connections[g]
       /\ \A g \in DOMAIN configs \ {lastOp'.host} :
             g \in DOMAIN configs' /\ configs'[g] = configs[g]
       /\ \A d \in BOOLEAN, o \in Outcomes :
             get_connection(PoolState', lastOp'.host, d, o.stage, o.exc).result.kind
                = "host_not_found"

C7_RemoveDespiteCloseFailure == [](C7_CloseTried) /\ [][C7_Removed]_vars

\* a host was removed although a close raised, and another host is still there
C7_Witness ==
    /\ lastOp.op = "remove_connection" /\ lastOp.kind = "removed"
    /\ lastOp.fails >= 1
    /\ \E g \in DOMAIN configs : g # lastOp.host

\* C8: a lazy build that fails raises an error naming the host and the mode,
\* caches nothing for them and leaves the other variant, the config, the default
\* and the other entries as they were; the other variant is still returned.
C8_FailedBuildNow ==
    \A h \in HostIds \cup {None}, d \in BOOLEAN, o \in Outcomes :
        (Builds(PoolState, h, d) /\ o.stage # "ok") =>
            LET r == get_connection(PoolState, h, d, o.stage, o.exc)
                host_id == Resolved(h, default_host)
            IN  /\ r.result.kind = "lazy_build_failed" /\ r.result.raised
                /\ r.result.host = host_id
                /\ r.result.mode = DecodeType(d)
                /\ r.state.connections = connections
                /\ r.state.configs = configs
                /\ r.state.default_host = default_host
                /\ \A d2 \in BOOLEAN :
                      DecodeType(d2) \in DOMAIN connections[host_id] =>
                         get_connection(r.state, host_id, d2, "ok", None).result.handle
                            = connections[host_id][DecodeType(d2)]

C8_FailedBuildStep ==
    lastOp'.kind = "lazy_build_failed" =>
        UNCHANGED <<connections, order, configs, default_host>>

C8_FailedLazyBuild == [](C8_FailedBuildNow) /\ [][C8_FailedBuildStep]_vars

\* the lazy build of the second variant of a host failed
C8_Witness ==
    /\ lastOp.op = "get_connection" /\ lastOp.kind = "lazy_build_failed"
    /\ \E h \in DOMAIN connections :
          /\ h = Resolved(lastOp.host, lastOp.default_before)
          /\ Cardinality(DOMAIN connections[h]) = 1

\* C9: get_connection returns the cached handle, or raises no-connections (only
\* with no host id on an empty registry), or host-not-found (exactly when the
\* resolved host id is not registered), or the lazy-build failure; nothing else.
C9_GetConnectionOutcomes ==
    [][lastOp'.op = "get_connection" =>
         LET host_id == Resolved(lastOp'.host, default_host)
         IN  /\ lastOp'.kind \in {"handle", "no_connections", "host_not_found",
                                  "lazy_build_failed"}
             /\ lastOp'.kind = "no_connections" =>
                   (lastOp'.host = None /\ DOMAIN connections = {})
             /\ lastOp'.kind = "host_not_found" <=>
                   (host_id # None /\ host_id \notin DOMAIN connections)]_vars

\* C10: list_connections does not raise: every host with a cached handle gets
\* an entry, with the error and its detail as status where the info query
\* raised and "connected" elsewhere, and the registry is unchanged by the call.
C10_ListNow ==
    \A infoFails \in SUBSET HostIds, e \in ExcKinds :
        LET listing == list_connections(PoolState, infoFails, e)
        IN  \A h \in DOMAIN connections :
               DOMAIN connections[h] # {} =>
                  /\ h \in DOMAIN listing
                  /\ listing[h].status =
                        IF h \in infoFails THEN "error: " \o e ELSE "connected"

C10_ListStep ==
    lastOp'.op = "list_connections" => (lastOp'.kind = "listed" /\ PoolUnchanged)

C10_ListNeverRaises == [](C10_ListNow) /\ [][C10_ListStep]_vars

\* the info query raised on one of two connected hosts
C10_Witness ==
    /\ lastOp.op = "list_connections" /\ lastOp.fails = 1
    /\ \A h \in HostIds : h \in DOMAIN connections /\ DOMAIN connections[h] # {}

\* C11: in every reachable state the mapping list_connections returns has the
\* registered host ids as its keys, marks exactly the entry of the default
\* host as default, and gives as available_modes of each entry the decode
\* modes cached for that host.
C11_ListMatchesRegistry ==
    \A infoFails \in SUBSET HostIds, e \in ExcKinds :
        LET listing == list_connections(PoolState, infoFails, e)
        IN  /\ DOMAIN listing = DOMAIN connections
            /\ \A h \in DOMAIN listing :
                  /\ listing[h].is_default = (h = default_host)
                  /\ listing[h].available_modes = DOMAIN connections[h]
            /\ default_host # None =>
                  (default_host \in DOMAIN listing /\ listing[default_host].is_default)

\* C12: in every reachable state and for every argument, get_connection_details
\* returns, without raising, the details of the resolved host (status connected
\* or error with the detail) or an error object: "no connections" when no host
\* id is given and there is no default, "not found" when the id is not
\* registered; for a registered host it never returns nothing.
C12_DetailsOrError ==
    \A h \in HostIds \cup {None}, failed \in BOOLEAN, e \in ExcKinds :
        LET r == get_connection_details(PoolState, h, failed, e)
            host_id == Resolved(h, default_host)
        IN  /\ r.kind \in {"details", "error"}
            /\ host_id = None =>
                  (r.kind = "error" /\ r.error = "No Redis connections available")
            /\ (host_id # None /\ host_id \notin DOMAIN connections) =>
                  (r.kind = "error"
                   /\ r.error = "Connection '" \o host_id \o "' not found")
            /\ host_id \in DOMAIN connections =>
                  /\ r.kind = "details"
                  /\ r.details.host_id = host_id
                  /\ r.details.status =
                        IF failed THEN "error: " \o e ELSE "connected"

\* C13: a successful add_connection(H, cfg2, mode) on a registered H makes cfg2
\* the stored config of H, so that get_connection_details(H) reports the host,
\* port, db, cluster and TLS values of cfg2; it replaces the handle of that
\* decode mode only, keeps the handle cached for the other mode of H open and
\* cached; and it does not change the default host.
C13_ReAddReplaces ==
    [][(lastOp'.op = "add_connection" /\ lastOp'.kind = "connected"
        /\ lastOp'.host \in DOMAIN connections) =>
          LET H == lastOp'.host
              cfg2 == configs'[H]
              d == get_connection_details(PoolState', H, FALSE, None).details
          IN  /\ cfg2 \in Configs
              /\ d.host = cfg2.host /\ d.port = cfg2.port /\ d.db = cfg2.db
              /\ d.cluster_mode = cfg2.cluster_mode
              /\ d.ssl = DictGet(cfg2, "ssl", "False")
              /\ Len(clients') = Len(clients) + 1
              /\ \E mode \in DecodeResponsesType :
                    /\ mode \in DOMAIN connections'[H]
                    /\ connections'[H][mode] = Len(clients')
                    /\ \A m \in DecodeResponsesType \ {mode} :
                          /\ m \in DOMAIN connections'[H] <=> m \in DOMAIN connections[H]
                          /\ m \in DOMAIN connections[H] =>
                                /\ connections'[H][m] = connections[H][m]
                                /\ clients'[connections[H][m]] = clients[connections[H][m]]
              /\ default_host' = default_host]_vars

\* C14: the facade's get_connection(None, mode), called on a registry without
\* entries while the store is reachable, registers one entry, under the host id
\* 'host:port' of the default configuration, makes it the default host and
\* returns the handle cached for it in the requested decode mode, having
\* constructed one client.
C14_ProvisionNow ==
    \A d \in BOOLEAN :
        DOMAIN connections = {} =>
           LET r == manager_get_connection(PoolState, None, d, "ok", None)
               H == DefaultConfig.host \o ":" \o DefaultConfig.port
           IN  /\ r.result.kind = "handle"
               /\ DOMAIN r.state.connections = {H}
               /\ r.state.configs = DictSet(EmptyDict, H, DefaultConfig)
               /\ r.state.default_host = H
               /\ DOMAIN r.state.connections[H] = {DecodeType(d)}
               /\ r.result.handle = r.state.connections[H][DecodeType(d)]
               /\ Len(r.state.clients) = Len(clients) + 1
               /\ r.result.handle = Len(r.state.clients)

C14_ProvisionStep ==
    (/\ lastOp'.op = "manager_get_connection" /\ lastOp'.host = None
     /\ DOMAIN connections = {} /\ lastOp'.kind # "add_failed") =>
        /\ lastOp'.kind = "handle" /\ lastOp'.built = 1
        /\ DOMAIN connections' = {DefaultHostId}
        /\ default_host' = DefaultHostId
        /\ Cardinality(DOMAIN connections'[DefaultHostId]) = 1

C14_AutoProvision == [](C14_ProvisionNow) /\ [][C14_ProvisionStep]_vars

\* the facade has provisioned the default connection on an empty registry
C14_Witness ==
    /\ lastOp.op = "manager_get_connection" /\ lastOp.host = None
    /\ lastOp.kind = "handle" /\ lastOp.built = 1 /\ lastOp.default_before = None
    /\ Len(clients) = 1
    /\ DOMAIN connections = {DefaultHostId} /\ default_host = DefaultHostId

\* C15: the facade's get_connection(host_id, mode) does not provision when the
\* registry has entries or when a host id is given: the registered host ids,
\* the stored configs and the default host are the same after the call as
\* before, and the outcome is that of the pool's get_connection(host_id, mode),
\* host-not-found for an unknown id on an empty registry included.
C15_DelegateNow ==
    \A h \in HostIds \cup {None}, d \in BOOLEAN, o \in Outcomes :
        (DOMAIN connections # {} \/ h # None) =>
           LET m == manager_get_connection(PoolState, h, d, o.stage, o.exc)
               g == get_connection(PoolState, h, d, o.stage, o.exc)
           IN  /\ m.result = g.result
               /\ m.state = g.state
               /\ DOMAIN m.state.connections = DOMAIN connections
               /\ m.state.configs = configs
               /\ m.state.default_host = default_host
               /\ (h # None /\ h \notin DOMAIN connections) =>
                     m.result.kind = "host_not_found"

C15_DelegateStep ==
    (/\ lastOp'.op = "manager_get_connection"
     /\ (DOMAIN connections # {} \/ lastOp'.host # None)) =>
        /\ DOMAIN connections' = DOMAIN connections
        /\ configs' = configs
        /\ default_host' = default_host
        /\ lastOp'.kind # "add_failed"

C15_NoProvision == [](C15_DelegateNow) /\ [][C15_DelegateStep]_vars

\* the facade was called with an unknown host id on an empty registry
C15_Witness ==
    /\ lastOp.op = "manager_get_connection" /\ lastOp.host = "A"
    /\ lastOp.kind = "host_not_found"
    /\ DOMAIN connections = {}

\* C16: every handle cached in the registry, and every handle get_connection
\* returns, is a client whose ping was executed and succeeded right after its
\* construction: no add_connection or get_connection call caches or returns a
\* client whose ping raised or was not made.
C16_Probed(S, handle) == handle # NoHandle /\ S.clients[handle].pinged

C16_CachedProbed(S) ==
    \A h \in DOMAIN S.connections : \A m \in DOMAIN S.connections[h] :
        C16_Probed(S, S.connections[h][m])

C16_OnlyProbedHandles ==
    /\ C16_CachedProbed(PoolState)
    /\ \A h \in HostIds, cfg \in Configs, d \in BOOLEAN, o \in Outcomes :
          C16_CachedProbed(add_connection(PoolState, h, cfg, d, o.stage, o.exc).state)
    /\ \A h \in HostIds \cup {None}, d \in BOOLEAN, o \in Outcomes :
          LET r == get_connection(PoolState, h, d, o.stage, o.exc)
          IN  /\ C16_CachedProbed(r.state)
              /\ r.result.kind = "handle" => C16_Probed(r.state, r.result.handle)

\* a host caches a handle add_connection built and one get_connection built
C16_Witness ==
    /\ lastOp.op = "get_connection" /\ lastOp.kind = "handle" /\ lastOp.built = 1
    /\ \E h \in DOMAIN connections :
          /\ DOMAIN connections[h] = DecodeResponsesType
          /\ connections[h][DECODED] # connections[h][RAW]

\* C17: add_connection raises, for each kind of driver failure, the message of
\* that kind with the host id and the detail: connection, authentication,
\* timeout, response, general driver, cluster and other failures have pairwise
\* different messages; an authentication failure is reported as one and not as
\* a connection failure, a cluster error as one and not as a general error.
C17_OwnMessage(exc) ==
    LET own == {i \in DOMAIN ExceptClauses : ExceptClauses[i].cls = exc}
    IN  IF own = {} THEN ExceptClauses[Len(ExceptClauses)].msg
        ELSE ExceptClauses[CHOOSE i \in own : TRUE].msg

C17_DistinctMessages ==
    [][(lastOp'.op = "add_connection" /\ lastOp'.kind = "add_failed") =>
          /\ \E e \in DriverExcKinds :
                lastOp'.error = C17_OwnMessage(e) \o lastOp'.host \o ": " \o e
          /\ \A e1, e2 \in DriverExcKinds :
                e1 # e2 => C17_OwnMessage(e1) # C17_OwnMessage(e2)]_vars

\* C18: the mutations of the registry exclude one another: when two threads run
\* add_connection, remove_connection, a default switch or a get_connection that
\* builds a variant at the same time, the registry they leave, the clients they
\* built and left open and what each call returned are those of one of the two
\* orders of the calls run one after the other; so two get_connection(H, RAW)
\* calls on a host without the RAW variant build one client and return the same
\* handle, and a removal beside a lazy build leaves no entry without a config.
C18_Sequential(S, task, o) ==
    CASE task.op = "add" ->
             add_connection(S, task.arg, task.config, task.decode, o.stage, o.exc)
      [] task.op = "get" ->
             get_connection(S, task.arg, task.decode, o.stage, o.exc)
      [] task.op = "remove" ->
             LET r == remove_connection(S, task.arg, {})
             IN  [state |-> r.state, result |-> r.result]
      [] task.op = "switch" -> switch_default_connection(S, task.arg)

C18_Left(S) ==
    [order |-> S.order,
     modes |-> [h \in DOMAIN S.connections |-> DOMAIN S.connections[h]],
     configs |-> S.configs,
     default_host |-> S.default_host,
     built |-> Len(S.clients),
     open |-> Cardinality({i \in DOMAIN S.clients : ~S.clients[i].closed})]

C18_MutuallyExclusive ==
    (\A t \in Tasks : /\ tasks[t].pc = "done"
                      /\ tasks[t].op \in {"add", "get", "remove", "switch"}) =>
       \E t1 \in Tasks, o1 \in Outcomes, o2 \in Outcomes :
          LET t2 == CHOOSE t \in Tasks : t # t1
              r1 == C18_Sequential(start[1], tasks[t1], o1)
              r2 == C18_Sequential(r1.state, tasks[t2], o2)
          IN  /\ C18_Left(r2.state) = C18_Left(PoolState)
              /\ r1.result.kind = tasks[t1].kind
              /\ r2.result.kind = tasks[t2].kind
              /\ (r1.result.handle = r2.result.handle)
                    <=> (tasks[t1].handle = tasks[t2].handle)

\* C19: list_connections and get_connection_details that run beside an
\* add_connection or a remove_connection see the registry as it is between two
\* calls: they do not raise because the registry changed under them, and they
\* meet no entry that is being inserted (one without a cached handle or
\* without a stored config) or removed.
C19_ConsistentSnapshot ==
    \A t \in Tasks :
        (/\ tasks[t].op \in {"list", "details"}
         /\ \A h \in DOMAIN start[1].connections :
               /\ InfoConn(start[1].connections[h]) # NoHandle
               /\ h \in DOMAIN start[1].configs) =>
           /\ tasks[t].kind \notin {"RuntimeError", "None"}
           /\ ~tasks[t].partial

\* C20: the registry is a singleton: every call of get_instance, of
\* RedisConnectionPool() and of get_pool returns the same object, and the host
\* map, the config map and the default are initialized on the first access only,
\* so that no later access resets what earlier calls registered; this also
\* when the first accesses are made by two threads at the same time.
C20_SameObject ==
    /\ singleton.objects <= 1
    /\ \A t1, t2 \in Tasks :
          (singleton.self[t1] # NoObject /\ singleton.self[t2] # NoObject) =>
             singleton.self[t1] = singleton.self[t2]

C20_NoReset ==
    (\E t \in Tasks : singleton.pc[t] = "init_fields" /\ singleton'.pc[t] = "has") =>
        UNCHANGED <<connections, order, configs, default_host>>

C20_Singleton == [](C20_SameObject) /\ [][C20_NoReset]_vars

\* C21: for every config whose cluster_mode is true, _create_connection_params
\* gives parameters with a startup-node list of one node, the host and port of
\* the config (127.0.0.1 and 6379 where absent), with the per-node connection
\* cap and without the total cap, without host, port, db and cluster_mode, and
\* with every other field of the config that is not None, and no None field.
C21_ClusterParams ==
    (/\ lastOp.op = "_create_connection_params"
     /\ Truthy(DictGet(lastOp.config, "cluster_mode", "False"))) =>
        LET config == lastOp.config
            p == lastOp.params
        IN  /\ p.startup_nodes = <<[host |-> DictGet(config, "host", "127.0.0.1"),
                                    port |-> DictGet(config, "port", "6379")]>>
            /\ "max_connections_per_node" \in DOMAIN p
            /\ "max_connections" \notin DOMAIN p
            /\ DOMAIN p \cap {"host", "port", "db", "cluster_mode"} = {}
            /\ \A k \in DOMAIN config \ {"host", "port", "db", "cluster_mode"} :
                  IF config[k] # None THEN k \in DOMAIN p /\ p[k] = config[k]
                  ELSE k \notin DOMAIN p

\* a cluster config without a host, with a db and with a None password
C21_Witness ==
    /\ lastOp.op = "_create_connection_params"
    /\ "cluster_mode" \in DOMAIN lastOp.config /\ lastOp.config.cluster_mode = "True"
    /\ "host" \notin DOMAIN lastOp.config
    /\ "db" \in DOMAIN lastOp.config
    /\ "password" \in DOMAIN lastOp.config /\ lastOp.config.password = None
    /\ lastOp.params.startup_nodes[1].host = "127.0.0.1"

\* C22: for every config whose cluster_mode is false or absent,
\* _create_connection_params gives parameters with every field of the config
\* that is not None except cluster_mode (db 3 gives db 3), with the total
\* connection cap of 10, without a per-node cap and without startup nodes; the
\* decode_responses parameter is the requested flag and lib_name is present.
C22_StandaloneParams ==
    (/\ lastOp.op = "_create_connection_params"
     /\ ~Truthy(DictGet(lastOp.config, "cluster_mode", "False"))) =>
        LET config == lastOp.config
            p == lastOp.params
        IN  /\ \A k \in DOMAIN config \ {"cluster_mode"} :
                  IF config[k] # None THEN k \in DOMAIN p /\ p[k] = config[k]
                  ELSE k \notin DOMAIN p
            /\ "cluster_mode" \notin DOMAIN p
            /\ "max_connections" \in DOMAIN p /\ p.max_connections = "10"
            /\ "max_connections_per_node" \notin DOMAIN p
            /\ "startup_nodes" \notin DOMAIN p
            /\ p.decode_responses = (IF lastOp.decode_responses THEN "True" ELSE "False")
            /\ "lib_name" \in DOMAIN p

\* a standalone config with db 3, asked for in raw mode
C22_Witness ==
    /\ lastOp.op = "_create_connection_params"
    /\ "cluster_mode" \in DOMAIN lastOp.config /\ lastOp.config.cluster_mode = "False"
    /\ "db" \in DOMAIN lastOp.config /\ lastOp.config.db = "3"
    /\ ~lastOp.decode_responses
    /\ lastOp.params.db = "3" /\ lastOp.params.decode_responses = "False"

\* C23: a caller that starts scan_keys at cursor 0 and calls it again with the
\* cursor of the previous result until scan_complete is true has then received,
\* in the union of the 'keys' lists, every key of the store that matches the
\* pattern, on a standalone server and on a cluster of several nodes (no scan
\* of a node having failed).
C23_ScanCoversStore ==
    (/\ lastOp.op = "scan_keys" /\ lastOp.kind = "result"
     /\ lastOp.scan_complete /\ ~lastOp.failed) =>
        lastOp.keys = StoreKeys(lastOp.store)

\* C24: in every reachable state of the registry, each command wrapper (delete,
\* type, expire, rename, dbsize, info, client_list) returns a value or an error
\* message and lets no exception out, whether the store operation fails with a
\* driver error or the connection cannot be obtained.
C24_NeverPropagates ==
    \A name \in CommandWrappers, host_arg \in HostIds \cup {None},
       o \in Outcomes, opExc \in {None} \cup (DriverExcKinds \ {"ValueError"}) :
        command_wrapper(PoolState, name, host_arg, o.stage, o.exc, opExc).kind
            \in {"value", "message"}

C26_EntriesHaveConfigAndHandle ==
    /\ DOMAIN connections = DOMAIN configs
    /\ \A h \in DOMAIN connections : DOMAIN connections[h] # {}

\* C27: every facade get_connection call without a host id that is made while
\* no connection has been established (no entry holds a handle) attempts to
\* register the default connection: it ends with the handle of the default
\* connection or with the failure of that attempt, also after an earlier
\* attempt has failed.
C27_ProvisionsEveryTime ==
    [][(/\ lastOp'.op = "manager_get_connection" /\ lastOp'.host = None
        /\ \A h \in DOMAIN connections : DOMAIN connections[h] = {})
          => /\ lastOp'.kind \in {"handle", "add_failed"}
             /\ lastOp'.kind = "handle" =>
                   (/\ DefaultHostId \in DOMAIN connections'
                    /\ DOMAIN connections'[DefaultHostId] # {})]_vars

\* C28: switch_default_connection(H) makes H the default exactly when H is a
\* key of the registry, otherwise it answers not-found and the default stays;
\* either way the host ids, the configs, the cached handles and the clients are
\* as before, and a get_connection without host id then resolves to the
\* default the call left.
C28_SwitchSetsDefaultOnly ==
    [][lastOp'.op = "switch_default_connection" =>
         /\ UNCHANGED <<connections, order, configs, clients>>
         /\ IF lastOp'.host \in DOMAIN connections
            THEN lastOp'.kind = "switched" /\ default_host' = lastOp'.host
            ELSE lastOp'.kind = "switch_not_found" /\ default_host' = default_host
         /\ \A d \in BOOLEAN, o \in Outcomes :
               get_connection(PoolState', None, d, o.stage, o.exc).result.host
                   = default_host']_vars

\* the default was switched from one host with a handle to another
C28_Witness ==
    /\ lastOp.op = "switch_default_connection" /\ lastOp.kind = "switched"
    /\ lastOp.default_before \notin {None, lastOp.host}
    /\ default_host = lastOp.host
    /\ \A h \in {lastOp.host, lastOp.default_before} :
          h \in DOMAIN connections /\ DOMAIN connections[h] # {}

C30_StoredConfigIsCopy ==
    /\ \A h \in DOMAIN configs :
          /\ configs[h] = lastOp.added[h]
          /\ \A failed \in BOOLEAN, e \in ExcKinds :
                LET r == get_connection_details(PoolState, h, failed, e)
                IN  r.kind = "details" =>
                       /\ r.details.host = lastOp.added[h].host
                       /\ r.details.port = lastOp.added[h].port
                       /\ r.details.db = lastOp.added[h].db
                       /\ r.details.cluster_mode = lastOp.added[h].cluster_mode
    /\ (lastOp.op = "get_connection" /\ lastOp.built = 1) =>
          clients[Len(clients)].params =
              CreateConnectionParams(lastOp.added[lastOp.host], lastOp.decode)

\* the caller changed the dict a host was added from, and get_connection then
\* built the other variant of that host
C30_Witness ==
    /\ lastOp.op = "get_connection" /\ lastOp.built = 1
    /\ lastOp.heap[lastOp.source[lastOp.host]] # lastOp.added[lastOp.host]
    /\ Cardinality(DOMAIN connections[lastOp.host]) = 2

\* C31: scan_all_keys terminates when the SCAN cursor of every node comes back
\* to 0; the list it returns holds every key a SCAN batch of any node yielded
\* and every key of the nodes whose scan did not raise; in cluster mode a node
\* whose scan raises is skipped and the others are still scanned; the call ends
\* with a value, the list or an error message, and raises nothing.
C31_Ended ==
    /\ lastOp.kind \in {"list", "message"}
    /\ lastOp.kind = "list" =>
          /\ lastOp.all_keys = lastOp.yielded
          /\ \A k \in StoreKeys(lastOp.store) :
                k[1] \notin lastOp.failed => k \in lastOp.all_keys
    /\ (lastOp.store.is_cluster /\ lastOp.exc = None) => lastOp.kind = "list"

C31_ScanAllTerminates ==
    /\ [](lastOp.pc = "done" => C31_Ended)
    /\ <>(lastOp.pc = "done")

\* a cluster scan ended with a list although the first node's scan raised after
\* it had yielded a batch: the list has that batch and the keys of node 2
C31_Witness ==
    /\ lastOp.pc = "done" /\ lastOp.kind = "list" /\ lastOp.store.is_cluster
    /\ lastOp.failed = {1}
    /\ <<1, 1>> \in lastOp.all_keys
    /\ Len(lastOp.store.nodes) = 2 /\ lastOp.store.nodes[2] > lastOp.batch_size
    /\ <<2, lastOp.store.nodes[2]>> \in lastOp.all_keys

====
